---- MODULE Spec2Model ----
(***************************************************************************)
(* Model of Q-protein's structure cache (src/v1/protein.py: make_pdb_path, *)
(* generate_pdbs, load_pdbs on top of src/qres/fold.py) and of its         *)
(* geometric descriptors (get_distance_matrix, flatten_distance_matrix,    *)
(* compute_quaternions, quaternion_from_vectors).                          *)
(*                                                                         *)
(* Spec          : Python processes that import the module and then call   *)
(*                 its cache functions.                                    *)
(* SpecFunctions : the bodies of the cache functions applied on their own, *)
(*                 with the globals the module's top level leaves them.    *)
(* SpecGeom      : the descriptor functions applied to parsed structures   *)
(*                 drawn from a bounded set.                               *)
(***************************************************************************)
EXTENDS Integers, Sequences, FiniteSets, TLC

\* ------------------------------------------------------------------ bounds
NumSequences == 4   \* how many of SampleSequences the callers pass around
MaxBatch == 2       \* longest batch handed to generate_pdbs / load_pdbs
MaxSeed == 1        \* hash seeds 0..MaxSeed a Python process may start with
MaxResidues == 3    \* longest parsed structure
MaxCoord == 2       \* alpha-carbons sit at (x,0,0), x in 0..MaxCoord

VARIABLES
    seed,            \* str-hash seed of the running Python process
    files,           \* the file system: path -> text (sequence of lines)
    filesBefore,     \* the file system as the last operation found it
    op,              \* the last operation: arguments, predictor calls, outcome
    structure,       \* parsed structure handed to the descriptor functions
    distance_matrix, \* result of get_distance_matrix(structure)
    flattened,       \* result of flatten_distance_matrix(distance_matrix)
    quaternions      \* result of compute_quaternions(structure)

vars == <<seed, files, filesBefore, op,
          structure, distance_matrix, flattened, quaternions>>
cacheVars == <<seed, files, filesBefore, op>>
geomVars == <<structure, distance_matrix, flattened, quaternions>>

Min(a, b) == IF a <= b THEN a ELSE b

\* ------------------------------------------------------------ sequences
AMINO_ACIDS ==
    <<"A", "C", "D", "E", "F", "G", "H", "I", "K", "L",
      "M", "N", "P", "Q", "R", "S", "T", "V", "W", "Y">>

\* Amino-acid strings of one and two residues; the callers' sequences are the
\* first NumSequences of them.
SampleSequences ==
    << <<AMINO_ACIDS[1]>>, <<AMINO_ACIDS[2]>>,
       <<AMINO_ACIDS[1], AMINO_ACIDS[2]>>, <<AMINO_ACIDS[2], AMINO_ACIDS[1]>>,
       <<AMINO_ACIDS[1], AMINO_ACIDS[1]>>, <<AMINO_ACIDS[2], AMINO_ACIDS[2]>>,
       <<AMINO_ACIDS[3]>>, <<AMINO_ACIDS[3], AMINO_ACIDS[1]>> >>

AminoSequences ==
    {SampleSequences[i] : i \in 1..Min(NumSequences, Len(SampleSequences))}
Batches == UNION {[1..n -> AminoSequences] : n \in 1..MaxBatch}
Seeds == 0..MaxSeed

LetterCode(c) == CHOOSE i \in 1..Len(AMINO_ACIDS) : AMINO_ACIDS[i] = c

\* ------------------------------------------------------------ evaluation
\* What evaluating an expression or a statement gives: a value, or an
\* exception that unwinds to the caller.
Raise(error) == [raised |-> TRUE, error |-> error, value |-> <<>>]
Value(v) == [raised |-> FALSE, error |-> "", value |-> v]

\* ------------------------------------------------------------ module top level
\* Line 10, PDB_CACHE_PATH = Path(__file__.parent / "pdb"): __file__ is a
\* str, which has no attribute parent, so the right-hand side raises
\* AttributeError and the name is never bound.
PDB_CACHE_PATH == Raise("AttributeError")

\* What line 8, `from fold import infer_structure_batch`, can end in:
\* ModuleNotFoundError when fold.py is not on the path (it lies in another
\* directory), OSError when from_pretrained cannot load the model
\* (fold.py:8-9), AssertionError without CUDA (fold.py:11), or it passes.
FoldImports == {"ok", "ModuleNotFoundError", "OSError", "AssertionError"}

\* `import protein`: the top level runs line by line.  When line 8 raises,
\* that exception ends the import; when it passes, line 10 does.  The def
\* statements of lines 15-190 come after line 10.
import_protein(fold) ==
    IF fold # "ok" THEN Raise(fold)
    ELSE IF PDB_CACHE_PATH.raised THEN Raise(PDB_CACHE_PATH.error)
    ELSE Value("protein")

\* Reading a module global inside a function: a name whose assignment raised
\* is unbound.
ReadGlobal(binding) == IF binding.raised THEN Raise("NameError") ELSE binding

\* ------------------------------------------------------------ cache key
\* Python's hash() of a str is a 64-bit keyed hash: equal for equal strings
\* under one seed, and different for the strings and seeds in play here.
\* Modelled as the number whose digits are the seed and then the letters.
RECURSIVE HashFold(_, _)
HashFold(sequence, h) ==
    IF sequence = <<>> THEN h
    ELSE HashFold(Tail(sequence),
                  h * (Len(AMINO_ACIDS) + 1) + LetterCode(Head(sequence)))

\* Keyed by the seed the process drew at start-up.
hash(sequence) == HashFold(sequence, seed + 1)

\* make_pdb_path(sequence): line 21 hashes the sequence, line 22 reads the
\* global PDB_CACHE_PATH to build the path.
make_pdb_path(sequence) ==
    LET hashed_sequence == hash(sequence)
        cache_path == ReadGlobal(PDB_CACHE_PATH)
    IN  IF cache_path.raised THEN cache_path
        ELSE Value([dir |-> cache_path.value, name |-> hashed_sequence])

\* ------------------------------------------------------------ predictor
AtomLine(res, idx) == [rec |-> "ATOM", res |-> res, idx |-> idx]
EndLine == [rec |-> "END", res |-> "", idx |-> 0]

\* The serialized structure of one predicted sequence: a residue line per
\* amino acid, closed by END.
to_pdb(sequence) ==
    [i \in 1..Len(sequence) + 1 |->
        IF i <= Len(sequence) THEN AtomLine(sequence[i], i) ELSE EndLine]

convert_outputs_to_pdb(sequences) ==
    [i \in 1..Len(sequences) |-> to_pdb(sequences[i])]

\* The tokenizer is called without padding: it only builds a tensor when all
\* sequences of the batch have one length.
TokenizerRaises(sequences) ==
    \E i, j \in 1..Len(sequences) : Len(sequences[i]) # Len(sequences[j])

Raised(sequences) == [batch |-> sequences, raised |-> TRUE, pdbs |-> <<>>]
Returned(sequences, pdbs) == [batch |-> sequences, raised |-> FALSE, pdbs |-> pdbs]

\* One call of the predictor: the batch it was given and what came back.
infer_structure_batch(sequences, deviceFails) ==
    IF deviceFails \/ TokenizerRaises(sequences)
    THEN Raised(sequences)
    ELSE Returned(sequences, convert_outputs_to_pdb(sequences))

\* ------------------------------------------------------------ file system
Exists(fs, path) == path \in DOMAIN fs
WriteFile(fs, path, text) == (path :> text) @@ fs

\* The loop of generate_pdbs after n iterations that all got their path.
RECURSIVE WritePdbs(_, _, _, _)
WritePdbs(fs, sequences, pdbs, n) ==
    IF n = 0 THEN fs
    ELSE WriteFile(WritePdbs(fs, sequences, pdbs, n - 1),
                   make_pdb_path(sequences[n]).value, pdbs[n])

\* ------------------------------------------------------------ return values
None == [tag |-> "None", items |-> <<>>]
List(items) == [tag |-> "list", items |-> items]

Operation(name, sequences, calls, outcome, ret, pdbs) ==
    [name |-> name, sequences |-> sequences, calls |-> calls,
     outcome |-> outcome, ret |-> ret, pdbs |-> pdbs]

\* Nothing has run yet.
NoOperation == Operation("none", <<>>, <<>>, "ok", None, <<>>)

Path(value) == [tag |-> "Path", items |-> <<value>>]

\* ------------------------------------------------------------ generate_pdbs
\* Variant: an exception of the predictor is caught and an empty list
\* returned.
generate_pdbs_swallow(sequences, deviceFails) ==
    LET call == infer_structure_batch(sequences, deviceFails)
        pdb_path == make_pdb_path(sequences[1])
    IN  /\ filesBefore' = files
        /\ seed' = seed
        /\ files' = files
        /\ op' = IF call.raised
                 THEN Operation("generate_pdbs", sequences, <<call>>,
                                "ok", List(<<>>), <<>>)
                 ELSE Operation("generate_pdbs", sequences, <<call>>,
                                pdb_path.error, None, <<>>)

\* generate_pdbs(sequences): line 28 predicts the whole batch; an exception
\* of the predictor leaves the function there.  The loop then asks
\* make_pdb_path for the path of the first sequence (line 30), and an
\* exception of make_pdb_path leaves the function before any open().
\* Otherwise one artifact is written per (sequence, pdb) pair and the
\* predictions are returned.
generate_pdbs(sequences, deviceFails) ==
    LET call == infer_structure_batch(sequences, deviceFails)
        pdb_path == make_pdb_path(sequences[1])
    IN  /\ filesBefore' = files
        /\ seed' = seed
        /\ IF call.raised
           THEN /\ files' = files
                /\ op' = Operation("generate_pdbs", sequences, <<call>>,
                                   "PredictorFailure", None, <<>>)
           ELSE IF pdb_path.raised
           THEN /\ files' = files
                /\ op' = Operation("generate_pdbs", sequences, <<call>>,
                                   pdb_path.error, None, <<>>)
           ELSE /\ files' = WritePdbs(files, sequences, call.pdbs,
                                      Min(Len(sequences), Len(call.pdbs)))
                /\ op' = Operation("generate_pdbs", sequences, <<call>>,
                                   "ok", List(call.pdbs), call.pdbs)

\* generate_pdbs cut short after the predictor returned (signal, kill).
\* k = 0: before line 30 has run, nothing is written.  k >= 1 needs the k-th
\* iteration to have got its path: the first k-1 artifacts are complete,
\* open(path, "w") has created or truncated the k-th and its first n lines
\* reached the disk.
generate_pdbs_interrupted(sequences, k, n) ==
    LET call == infer_structure_batch(sequences, FALSE)
        done == WritePdbs(files, sequences, call.pdbs, IF k = 0 THEN 0 ELSE k - 1)
    IN  /\ ~call.raised
        /\ k \in 0..Len(sequences)
        /\ k >= 1 => ~make_pdb_path(sequences[k]).raised
        /\ n \in 0..(IF k = 0 THEN 0 ELSE Len(call.pdbs[k]))
        /\ filesBefore' = files
        /\ seed' = seed
        /\ files' = IF k = 0 THEN files
                    ELSE WriteFile(done, make_pdb_path(sequences[k]).value,
                                   SubSeq(call.pdbs[k], 1, n))
        /\ op' = Operation("generate_pdbs", sequences, <<call>>,
                           "interrupted", None, <<>>)

\* ------------------------------------------------------------ load_pdbs
\* Index of the first sequence of the batch without a file, 0 if none.
FirstMissing(fs, sequences) ==
    IF \A i \in 1..Len(sequences) :
          Exists(fs, make_pdb_path(sequences[i]).value)
    THEN 0
    ELSE CHOOSE i \in 1..Len(sequences) :
            /\ ~Exists(fs, make_pdb_path(sequences[i]).value)
            /\ \A j \in 1..i - 1 :
                  Exists(fs, make_pdb_path(sequences[j]).value)

\* load_pdbs(sequences): the loop asks make_pdb_path for the path of the
\* first sequence (line 39), and an exception of make_pdb_path leaves the
\* function there.  Otherwise the artifact of each sequence is read in turn
\* into the local list pdbs, and the first sequence without a file raises
\* FileNotFoundError.  The function has no return statement.
load_pdbs(sequences) ==
    LET pdb_path == make_pdb_path(sequences[1])
        miss == FirstMissing(files, sequences)
        read == IF miss = 0 THEN Len(sequences) ELSE miss - 1
        pdbs == [i \in 1..read |-> files[make_pdb_path(sequences[i]).value]]
    IN  /\ filesBefore' = files
        /\ seed' = seed
        /\ files' = files
        /\ op' = IF pdb_path.raised
                 THEN Operation("load_pdbs", sequences, <<>>,
                                pdb_path.error, None, <<>>)
                 ELSE Operation("load_pdbs", sequences, <<>>,
                                IF miss = 0 THEN "ok" ELSE "FileNotFoundError",
                                None, pdbs)

NoStructure == <<>>
NoResult == [outcome |-> "none", value |-> <<>>]

\* ------------------------------------------------------------ processes
\* What a script does after `import protein`: one call of a cache function,
\* or generate_pdbs followed by load_pdbs on the same batch.
Calls ==
    {[name |-> name, sequences |-> sequences] :
        name \in {"generate_pdbs", "load_pdbs", "generate_pdbs;load_pdbs"},
        sequences \in Batches}
    \cup {[name |-> "make_pdb_path", sequences |-> <<sequence>>] :
            sequence \in AminoSequences}

\* A new Python process draws its hash seed and imports the module.  The
\* import raises, and the exception ends the process.
ImportModule ==
    /\ \E s \in Seeds, fold \in FoldImports :
          LET imported == import_protein(fold)
          IN  /\ imported.raised
              /\ seed' = s
              /\ op' = Operation("import", <<>>, <<>>, imported.error,
                                 None, <<>>)
    /\ filesBefore' = files
    /\ files' = files
    /\ UNCHANGED geomVars

\* A new Python process runs a script that imports the module and then
\* calls its functions.  The import raises before the first call: no
\* function runs, the predictor is not invoked, nothing is read or written,
\* and the script ends in the import's exception.
ImportAndCall ==
    /\ \E s \in Seeds, fold \in FoldImports, call \in Calls :
          LET imported == import_protein(fold)
          IN  /\ imported.raised
              /\ seed' = s
              /\ op' = Operation(call.name, call.sequences, <<>>,
                                 imported.error, None, <<>>)
    /\ filesBefore' = files
    /\ files' = files
    /\ UNCHANGED geomVars

Init ==
    /\ seed = 0
    /\ files = <<>>
    /\ filesBefore = <<>>
    /\ op = NoOperation
    /\ structure = NoStructure
    /\ distance_matrix = NoResult
    /\ flattened = NoResult
    /\ quaternions = NoResult

Next ==
    \/ ImportModule
    \/ ImportAndCall

Spec == Init /\ [][Next]_vars

\* ------------------------------------------------------------ function bodies
\* The functions of lines 19-44 applied on their own: the names lines 1-8
\* bind are bound, PDB_CACHE_PATH is not.
GeneratePdbs ==
    /\ \E sequences \in Batches, deviceFails \in BOOLEAN :
          generate_pdbs(sequences, deviceFails)
    /\ UNCHANGED geomVars

GeneratePdbsInterrupted ==
    /\ \E sequences \in Batches :
          \E k \in 0..Len(sequences) :
             \E n \in 0..(IF k = 0 THEN 0 ELSE Len(sequences[k]) + 1) :
                generate_pdbs_interrupted(sequences, k, n)
    /\ UNCHANGED geomVars

LoadPdbs ==
    /\ \E sequences \in Batches : load_pdbs(sequences)
    /\ UNCHANGED geomVars

MakePdbPath ==
    /\ \E sequence \in AminoSequences :
          LET pdb_path == make_pdb_path(sequence)
          IN  op' = IF pdb_path.raised
                    THEN Operation("make_pdb_path", <<sequence>>, <<>>,
                                   pdb_path.error, None, <<>>)
                    ELSE Operation("make_pdb_path", <<sequence>>, <<>>,
                                   "ok", Path(pdb_path.value), <<>>)
    /\ filesBefore' = files
    /\ files' = files
    /\ seed' = seed
    /\ UNCHANGED geomVars

InitFunctions ==
    /\ seed \in Seeds
    /\ files = <<>>
    /\ filesBefore = <<>>
    /\ op = NoOperation
    /\ structure = NoStructure
    /\ distance_matrix = NoResult
    /\ flattened = NoResult
    /\ quaternions = NoResult

NextFunctions ==
    \/ GeneratePdbs
    \/ GeneratePdbsInterrupted
    \/ LoadPdbs
    \/ MakePdbPath

SpecFunctions == InitFunctions /\ [][NextFunctions]_vars

\* ------------------------------------------------------------ floats
\* A numpy float: a number or NaN.  Alpha-carbons sit on the x axis at whole
\* coordinates, so every quotient and square root below is exact.
Num(x) == [nan |-> FALSE, val |-> x]
NaN == [nan |-> TRUE, val |-> 0]

Sqrt(n) == CHOOSE r \in 0..n : r * r = n

FAdd(a, b) == IF a.nan \/ b.nan THEN NaN ELSE Num(a.val + b.val)
FSub(a, b) == IF a.nan \/ b.nan THEN NaN ELSE Num(a.val - b.val)
FMul(a, b) == IF a.nan \/ b.nan THEN NaN ELSE Num(a.val * b.val)
FSqrt(a) == IF a.nan THEN NaN ELSE Num(Sqrt(a.val))
\* numpy division warns and yields NaN for 0/0; a norm is 0 only when the
\* vector it divides is 0 too.
FDiv(a, b) ==
    IF a.nan \/ b.nan \/ b.val = 0 THEN NaN ELSE Num(a.val \div b.val)

RECURSIVE FSum(_)
FSum(v) == IF v = <<>> THEN Num(0) ELSE FAdd(Head(v), FSum(Tail(v)))

FSquares(v) == [i \in 1..Len(v) |-> FMul(v[i], v[i])]
Norm(v) == FSqrt(FSum(FSquares(v)))
Dot(a, b) == FSum([i \in 1..Len(a) |-> FMul(a[i], b[i])])
Cross(a, b) ==
    << FSub(FMul(a[2], b[3]), FMul(a[3], b[2])),
       FSub(FMul(a[3], b[1]), FMul(a[1], b[3])),
       FSub(FMul(a[1], b[2]), FMul(a[2], b[1])) >>
Scale(v, d) == [i \in 1..Len(v) |-> FDiv(v[i], d)]
Floats(c) == [i \in 1..Len(c) |-> Num(c[i])]

\* ------------------------------------------------------------ structures
\* A parsed residue: the hetero flag residue.id[0], whether it holds an atom
\* named CA, and that atom's coordinates.
StandardFlag == " "
HeteroFlag == "H_CA"
Residues ==
    {[hetfield |-> h, has_ca |-> TRUE, coord |-> <<x, 0, 0>>] :
        h \in {StandardFlag, HeteroFlag}, x \in 0..MaxCoord}
    \cup {[hetfield |-> h, has_ca |-> FALSE, coord |-> <<0, 0, 0>>] :
        h \in {StandardFlag, HeteroFlag}}
Structures == UNION {[1..n -> Residues] : n \in 0..MaxResidues}

Ok(value) == [outcome |-> "ok", value |-> value]
Failed(error) == [outcome |-> error, value |-> <<>>]

\* ------------------------------------------------------------ distance matrix
IsStandardCa(residue) == residue.hetfield = StandardFlag /\ residue.has_ca

\* Variant: a structure with fewer than two alpha-carbons gives the empty
\* matrix.
CaAtomsOfStandardResiduesAtLeastTwo(pdb) ==
    LET ca == SelectSeq(pdb, IsStandardCa)
    IN  IF Len(ca) < 2 THEN <<>> ELSE ca

\* The alpha-carbons get_distance_matrix collects.
CaAtomsOfStandardResidues(pdb) == SelectSeq(pdb, IsStandardCa)

Distance(a, b) ==
    LET distance == [k \in 1..3 |-> a[k] - b[k]]
    IN  Sqrt(distance[1] * distance[1] + distance[2] * distance[2]
             + distance[3] * distance[3])

get_distance_matrix(pdb) ==
    LET ca_atoms == CaAtomsOfStandardResidues(pdb)
        num_residues == Len(ca_atoms)
    IN  [i \in 1..num_residues |->
            [j \in 1..num_residues |->
                IF i = j THEN 0
                ELSE IF i < j
                     THEN Distance(ca_atoms[i].coord, ca_atoms[j].coord)
                     ELSE Distance(ca_atoms[j].coord, ca_atoms[i].coord)]]

\* ------------------------------------------------------------ flatten
\* np.triu_indices(n, k=1): the index pairs above the diagonal, row by row.
RECURSIVE TriuIndices(_, _)
TriuIndices(n, row) ==
    IF row > n THEN <<>>
    ELSE [c \in 1..n - row |-> <<row, row + c>>] \o TriuIndices(n, row + 1)

\* The assertion of line 98, size == shape[0] ** 2 / 2 - shape[0], with both
\* sides doubled.
FlattenAssertion(size, shape0) == 2 * size = shape0 * shape0 - 2 * shape0

flatten_distance_matrix(matrix) ==
    LET shape0 == Len(matrix)
        indices == TriuIndices(shape0, 1)
        result == [k \in 1..Len(indices) |->
                      matrix[indices[k][1]][indices[k][2]]]
    IN  IF FlattenAssertion(Len(result), shape0)
        THEN Ok(result)
        ELSE Failed("AssertionError")

\* ------------------------------------------------------------ quaternions
quaternion_from_vectors(v1, v2) ==
    LET v_cross == Cross(v1, v2)
        v_dot == Dot(v1, v2)
        q0 == FAdd(FSqrt(FMul(FSum(FSquares(v1)), FSum(FSquares(v2)))), v_dot)
        q == <<q0>> \o v_cross
    IN  Scale(q, Norm(q))

HasCa(residue) == residue.has_ca

\* The alpha-carbons compute_quaternions collects.
CaAtomsOfAllResidues(pdb) == SelectSeq(pdb, HasCa)

\* The normalized vectors between consecutive alpha-carbons.
TangentVectors(ca_atoms) ==
    [i \in 1..Len(ca_atoms) - 1 |->
        LET vec == Floats([k \in 1..3 |->
                       ca_atoms[i + 1].coord[k] - ca_atoms[i].coord[k]])
        IN  Scale(vec, Norm(vec))]

compute_quaternions(pdb) ==
    LET ca_atoms == CaAtomsOfAllResidues(pdb)
        vectors == TangentVectors(ca_atoms)
    IN  [i \in 1..Len(vectors) - 1 |->
            quaternion_from_vectors(vectors[i], vectors[i + 1])]

\* ------------------------------------------------------------ descriptor actions
GetDistanceMatrix ==
    /\ distance_matrix' = Ok(get_distance_matrix(structure))
    /\ UNCHANGED <<structure, flattened, quaternions>>
    /\ UNCHANGED cacheVars

FlattenDistanceMatrix ==
    /\ distance_matrix.outcome = "ok"
    /\ flattened' = flatten_distance_matrix(distance_matrix.value)
    /\ UNCHANGED <<structure, distance_matrix, quaternions>>
    /\ UNCHANGED cacheVars

\* numpy only warns on the divisions: the call always returns its list.
ComputeQuaternions ==
    /\ quaternions' = Ok(compute_quaternions(structure))
    /\ UNCHANGED <<structure, distance_matrix, flattened>>
    /\ UNCHANGED cacheVars

InitGeom ==
    /\ seed = 0
    /\ files = <<>>
    /\ filesBefore = <<>>
    /\ op = NoOperation
    /\ structure \in Structures
    /\ distance_matrix = NoResult
    /\ flattened = NoResult
    /\ quaternions = NoResult

NextGeom ==
    \/ GetDistanceMatrix
    \/ FlattenDistanceMatrix
    \/ ComputeQuaternions

SpecGeom == InitGeom /\ [][NextGeom]_vars

\* ================================================================ claims
\* ---------------------------------------------------------------- cache

\* C1: whenever a process calls generate_pdbs on a batch, the predictor is
\* invoked exactly once, and no sequence of the batch the predictor receives
\* had a cache file before the call.
C1_OnlyUncachedSequencesPredicted ==
    op.name = "generate_pdbs" =>
        /\ Len(op.calls) = 1
        /\ \A i \in 1..Len(op.calls[1].batch) :
              LET pdb_path == make_pdb_path(op.calls[1].batch[i])
              IN  pdb_path.raised \/ ~Exists(filesBefore, pdb_path.value)

\* C2: a process that populates the cache for a batch with generate_pdbs and
\* then calls load_pdbs on the same batch gets from load_pdbs the structures
\* the prediction produced.
C2_LoadReturnsWhatWasGenerated ==
    op.name = "generate_pdbs;load_pdbs" =>
        /\ op.outcome = "ok"
        /\ op.ret = List(convert_outputs_to_pdb(op.sequences))

\* C3: a process that calls load_pdbs while no cache file exists ends in
\* FileNotFoundError, makes no predictor call and leaves the file system as
\* it found it.
C3_LoadOfMissingSequenceRaises ==
    (op.name = "load_pdbs" /\ DOMAIN filesBefore = {})
    => /\ op.outcome = "FileNotFoundError"
       /\ op.calls = <<>>
       /\ files = filesBefore

\* C4: two processes that ask make_pdb_path for the path of the same sequence
\* one after the other both get a path, and the same one.
C4_CacheKeyIsStable ==
    [][(/\ op.name = "make_pdb_path"
        /\ op'.name = "make_pdb_path"
        /\ op'.sequences = op.sequences)
       => /\ op.outcome = "ok"
          /\ op'.outcome = "ok"
          /\ op'.ret = op.ret]_vars

C5_FlattenReturnsUpperTriangle ==
    flattened.outcome # "none" =>
        LET R == Len(distance_matrix.value)
        IN  /\ flattened.outcome = "ok"
            /\ 2 * Len(flattened.value) = R * (R - 1)

\* C6: on a chain of three or more alpha-carbons (so that a quaternion is
\* computed) with two coinciding consecutive alpha-carbons, or with two
\* exactly opposite consecutive tangents, compute_quaternions ends in a
\* degenerate-input error and returns no value.
C6_DegenerateInputRaises ==
    LET ca == SelectSeq(structure, HasCa)
        step(i) == ca[i + 1].coord[1] - ca[i].coord[1]
        coincide == \E i \in 1..Len(ca) - 1 : ca[i].coord = ca[i + 1].coord
        opposite == \E i \in 1..Len(ca) - 2 : step(i) * step(i + 1) < 0
    IN  (/\ quaternions.outcome # "none"
         /\ Len(ca) >= 3
         /\ (coincide \/ opposite))
        => /\ quaternions.outcome \in
                {"DegenerateVectorError", "DegenerateRotationError"}
           /\ quaternions.value = <<>>

\* C9 (as stated): for a structure with fewer than 2 standard residues holding
\* an alpha-carbon, get_distance_matrix returns the empty 0x0 matrix.
C9_FewerThanTwoGivesEmptyMatrix ==
    LET n == Cardinality({i \in 1..Len(structure) :
                 structure[i].hetfield = StandardFlag /\ structure[i].has_ca})
    IN  (distance_matrix.outcome # "none" /\ n < 2)
        => distance_matrix = Ok(<<>>)

\* C9 (amended): for a structure with n < 2 standard residues holding an
\* alpha-carbon, get_distance_matrix returns without error the n x n zero
\* matrix: the empty matrix for n = 0, [[0]] for n = 1.
C9_FewerThanTwoGivesZeroMatrix ==
    LET n == Cardinality({i \in 1..Len(structure) :
                 structure[i].hetfield = StandardFlag /\ structure[i].has_ca})
    IN  (distance_matrix.outcome # "none" /\ n < 2)
        => distance_matrix = Ok([i \in 1..n |-> [j \in 1..n |-> 0]])

\* C9 witness: get_distance_matrix has returned [[0]] for a structure with a
\* single qualifying residue among others.
C9_SingleResidueMatrix ==
    /\ distance_matrix = Ok(<< <<0>> >>)
    /\ Len(structure) >= 2

\* C10: the number of quaternions of a structure is R - 2, and 0 when R < 2,
\* for R the dimension of the same structure's distance matrix.
C10_QuaternionCountMatchesMatrix ==
    (distance_matrix.outcome = "ok" /\ quaternions.outcome = "ok") =>
        LET R == Len(distance_matrix.value)
        IN  Len(quaternions.value) = IF R < 2 THEN 0 ELSE R - 2

====
